---- MODULE Spec2Model ----
(***************************************************************************)
(* The two Netlify functions of the estimator repository:                  *)
(*   netlify/functions/parse-invoice.js  (document extraction proxy)       *)
(*   netlify/functions/ai-pricing.js     (pricing strategy + shaper)       *)
(* One invocation is modelled from the call of exports.handler to its      *)
(* return, cut at the handler's await points (fetch, response.json()).     *)
(*                                                                         *)
(* Text is modelled as a sequence of lexical tokens.  A token is a record  *)
(* [kind, key, lit]; its characters are                                    *)
(*    {   }   ,   newline   fence   json    or, for kind member,           *)
(*    the quoted key, a colon and the literal lit (one pair of an object). *)
(***************************************************************************)
EXTENDS Integers, Sequences, FiniteSets, TLC

VARIABLES fn, event, env, pc, calls, upstream, responses

vars == <<fn, event, env, pc, calls, upstream, responses>>

\* ------------------------------------------------------------ bounds
MaxLen == 5
MaxHistory == 2

\* ------------------------------------------------------------ JSON values
\* A parsed JSON value (or JavaScript undefined): type, primitive text, elements.
JUndefined == [type |-> "undefined", prim |-> "", elems |-> <<>>]
JNull == [type |-> "null", prim |-> "", elems |-> <<>>]
JNum(n) == [type |-> "number", prim |-> n, elems |-> <<>>]
JStr(s) == [type |-> "string", prim |-> s, elems |-> <<>>]
JArr(es) == [type |-> "array", prim |-> "", elems |-> es]

\* JavaScript truthiness, as used by the || operators of the shaper.
Truthy(v) ==
    /\ v.type \notin {"undefined", "null"}
    /\ ~(v.type = "string" /\ v.prim = "")
    /\ ~(v.type = "number" /\ v.prim = "0")

\* The value literals that occur in texts, with the value JSON.parse gives each.
\* ^ stands for the backquote character, which a string of this module cannot
\* hold: ^^^ is a code-fence marker.  LitEscList spells the three backquotes of
\* its element as \u0060 escapes.
LitNull == "null"
LitNum == "5"
LitZero == "0"
LitStr == "\"Hi\""
LitEmptyStr == "\"\""
LitEmptyList == "[]"
LitList == "[{\"tabId\":\"tab-1\"}]"
LitFenceList == "[\"^^^\"]"
LitEscList == "[\"\\u0060\\u0060\\u0060\"]"
LitBlankList == "[\"\"]"

ParseLiteral(lit) ==
    CASE lit = LitNull -> JNull
      [] lit = LitNum -> JNum("5")
      [] lit = LitZero -> JNum("0")
      [] lit = LitStr -> JStr("Hi")
      [] lit = LitEmptyStr -> JStr("")
      [] lit = LitEmptyList -> JArr(<<>>)
      [] lit = LitList -> JArr(<<"{tabId:tab-1}">>)
      [] lit = LitFenceList -> JArr(<<"^^^">>)
      [] lit = LitEscList -> JArr(<<"^^^">>)
      [] lit = LitBlankList -> JArr(<<"">>)

\* JSON.stringify of a value: the canonical literal (backquotes are not escaped).
Stringify(v) ==
    CASE v.type = "null" -> LitNull
      [] v.type = "number" -> v.prim
      [] v.type = "string" -> IF v.prim = "" THEN LitEmptyStr ELSE LitStr
      [] v.type = "array" ->
            IF v.elems = <<>> THEN LitEmptyList
            ELSE IF v.elems = <<"^^^">> THEN LitFenceList
            ELSE IF v.elems = <<"">> THEN LitBlankList
            ELSE LitList

\* ------------------------------------------------------------ tokens
LB == [kind |-> "{", key |-> "", lit |-> ""]
RB == [kind |-> "}", key |-> "", lit |-> ""]
COMMA == [kind |-> ",", key |-> "", lit |-> ""]
NL == [kind |-> "\n", key |-> "", lit |-> ""]
FENCE == [kind |-> "^^^", key |-> "", lit |-> ""]
JSONWORD == [kind |-> "json", key |-> "", lit |-> ""]
Member(k, l) == [kind |-> "member", key |-> k, lit |-> l]

RecKey == "recommendations"
TmsKey == "textMessageSummary"

\* The tokens upstream reply texts are drawn from.
Tokens ==
    { LB, RB, COMMA, NL, FENCE, JSONWORD,
      Member(RecKey, LitList), Member(RecKey, LitNum), Member(RecKey, LitEscList),
      Member(TmsKey, LitStr) }

BoundedTexts == UNION { [1..n -> Tokens] : n \in 0..MaxLen }

\* ------------------------------------------------------------ string helpers
IsWs(t) == t = NL

RECURSIVE TrimStart(_)
TrimStart(s) == IF s # <<>> /\ IsWs(Head(s)) THEN TrimStart(Tail(s)) ELSE s

RECURSIVE TrimEnd(_)
TrimEnd(s) ==
    IF s # <<>> /\ IsWs(s[Len(s)]) THEN TrimEnd(SubSeq(s, 1, Len(s) - 1)) ELSE s

\* String.prototype.trim
Trim(s) == TrimEnd(TrimStart(s))

SetMin(S) == CHOOSE x \in S : \A y \in S : x <= y
SetMax(S) == CHOOSE x \in S : \A y \in S : y <= x

\* Does the text of the token contain the quoted key recommendations?
HasRecLiteral(t) == t.kind = "member" /\ t.key = RecKey

\* A pattern that does not require the key: any brace pair.
AnyBraces(text, i, k) == text[i] = LB /\ text[k] = RB /\ i < k

\* The pattern of jsonMatch (an opening brace, anything, the quoted key
\* recommendations, anything, a closing brace) matches text from i to k.
PatternMatches(text, i, k) ==
    /\ text[i] = LB
    /\ text[k] = RB
    /\ \E j \in (i + 1)..(k - 1) : HasRecLiteral(text[j])

\* String.prototype.match without the g flag: the leftmost start, and from it
\* the longest match (both quantifiers are greedy).
JsonMatch(text) ==
    LET starts == { i \in 1..Len(text) :
                      \E k \in 1..Len(text) : PatternMatches(text, i, k) }
    IN  IF starts = {} THEN [found |-> FALSE, str |-> <<>>]
        ELSE LET i == SetMin(starts)
                 k == SetMax({ e \in 1..Len(text) : PatternMatches(text, i, e) })
             IN  [found |-> TRUE, str |-> SubSeq(text, i, k)]

\* String.prototype.indexOf, as a 1-based position (0 when absent).
IndexOf(text, sub) ==
    LET at == { p \in 1..(Len(text) - Len(sub) + 1) :
                  SubSeq(text, p, p + Len(sub) - 1) = sub }
    IN  IF at = {} THEN 0 ELSE SetMin(at)

\* The first replace (the fence marker, json, optional newline): one left-to-right pass.
RECURSIVE StripJsonFences(_)
StripJsonFences(s) ==
    IF s = <<>> THEN <<>>
    ELSE IF Len(s) >= 2 /\ s[1] = FENCE /\ s[2] = JSONWORD
         THEN IF Len(s) >= 3 /\ s[3] = NL
              THEN StripJsonFences(SubSeq(s, 4, Len(s)))
              ELSE StripJsonFences(SubSeq(s, 3, Len(s)))
         ELSE <<Head(s)>> \o StripJsonFences(Tail(s))

\* The effect of the second replace on the characters inside one token.
StripInToken(t) ==
    IF t.kind = "member" /\ t.lit = LitFenceList THEN Member(t.key, LitBlankList) ELSE t

\* The second replace (the fence marker, optional newline): one left-to-right pass.
RECURSIVE StripPlainFences(_)
StripPlainFences(s) ==
    IF s = <<>> THEN <<>>
    ELSE IF s[1] = FENCE
         THEN IF Len(s) >= 2 /\ s[2] = NL
              THEN StripPlainFences(SubSeq(s, 3, Len(s)))
              ELSE StripPlainFences(Tail(s))
         ELSE <<StripInToken(Head(s))>> \o StripPlainFences(Tail(s))

StripFences(s) == StripPlainFences(StripJsonFences(s))

\* JSON.parse of a token sequence: ok is FALSE where JSON.parse throws a
\* SyntaxError; members are the key/value pairs of the object, in text order.
\* White space may stand between any two tokens.
JsonParse(s) ==
    LET toks == SelectSeq(s, LAMBDA t : ~IsWs(t))
        n == Len(toks)
        inner == SubSeq(toks, 2, n - 1)
        wellFormed ==
            /\ n >= 2
            /\ toks[1] = LB
            /\ toks[n] = RB
            /\ \/ inner = <<>>
               \/ /\ Len(inner) % 2 = 1
                  /\ \A p \in 1..Len(inner) :
                        IF p % 2 = 1 THEN inner[p].kind = "member" ELSE inner[p] = COMMA
    IN  IF wellFormed
        THEN [ok |-> TRUE, members |-> SelectSeq(inner, LAMBDA t : t.kind = "member")]
        ELSE [ok |-> FALSE, members |-> <<>>]

\* parsed.<key>: the last pair with that key wins; undefined when there is none.
Prop(parsed, key) ==
    LET at == { p \in 1..Len(parsed.members) : parsed.members[p].key = key }
    IN  IF at = {} THEN JUndefined ELSE ParseLiteral(parsed.members[SetMax(at)].lit)

\* a || b
OrElse(a, b) == IF Truthy(a) THEN a ELSE b

\* ------------------------------------------------------------ response shaper
CatchKeepsPrefix(responseText, before) == before

\* The catch block of the inner try: the whole response becomes the explanation.
CatchExplanation(responseText, before) == responseText

\* ai-pricing.js, from data.content[0].text to the stringified body.
ShapeResponse(text) ==
    LET responseText == Trim(text)
        jsonMatch == JsonMatch(responseText)
    IN  IF jsonMatch.found
        THEN LET jsonStartIndex == IndexOf(responseText, jsonMatch.str)
                 before == Trim(SubSeq(responseText, 1, jsonStartIndex - 1))
                 jsonText == Trim(StripFences(jsonMatch.str))
                 parsed == JsonParse(jsonText)
             IN  IF parsed.ok
                 THEN [explanation |-> before,
                       recommendations |-> OrElse(Prop(parsed, RecKey), JArr(<<>>)),
                       textMessageSummary |-> OrElse(Prop(parsed, TmsKey), JStr(""))]
                 ELSE [explanation |-> CatchExplanation(responseText, before),
                       recommendations |-> JNull,
                       textMessageSummary |-> JStr("")]
        ELSE [explanation |-> responseText,
              recommendations |-> JNull,
              textMessageSummary |-> JStr("")]

\* ------------------------------------------------------------ requests
\* A string-valued field that is absent from the body (JavaScript undefined).
UNDEF == "<undefined>"

\* !x for a field that is a string or undefined.
Falsy(x) == x \in {UNDEF, ""}

Methods == {"POST", "GET", "PUT"}

\* Conversation turns and pricing options a caller may send.
Turns == { [role |-> "user", content |-> "How about cheaper?"],
           [role |-> "assistant", content |-> "Here is my advice."] }

Histories == UNION { [1..n -> Turns] : n \in 0..MaxHistory }

GoodOption == [name |-> "Basic", tabId |-> "tab-1", hasItems |-> TRUE,
               items |-> <<[description |-> "Camera", section |-> "Hardware"]>>]
BadOption == [name |-> "Basic", tabId |-> "tab-1", hasItems |-> FALSE, items |-> <<>>]

OptionLists == { <<>>, <<GoodOption>>, <<BadOption>> }

\* event.body: kind says what JSON.parse(event.body) meets (no body at all, text
\* that is not JSON, the JSON text null, or an object with the fields below).
NoFields == [apiKey |-> UNDEF, pdfBase64 |-> UNDEF, userMessage |-> UNDEF,
             projectName |-> UNDEF, clientName |-> UNDEF,
             hasOptions |-> FALSE, options |-> <<>>,
             hasHistory |-> FALSE, conversationHistory |-> <<>>]

BrokenBodies == { [kind |-> k, f |-> NoFields] : k \in {"undefined", "malformed", "null"} }

InvoiceBodies ==
    BrokenBodies \cup
    { [kind |-> "object", f |-> [NoFields EXCEPT !.apiKey = a, !.pdfBase64 = d]] :
        a \in {UNDEF, "", "sk-caller"}, d \in {UNDEF, "", "JVBERi0="} }

PricingBodies ==
    BrokenBodies \cup
    { [kind |-> "object",
       f |-> [NoFields EXCEPT !.userMessage = u, !.projectName = "Shop CCTV",
                              !.clientName = "Sam", !.hasOptions = ho, !.options = o,
                              !.hasHistory = hh, !.conversationHistory = h]] :
        u \in {UNDEF, "", "Keep it under 5k"},
        ho \in BOOLEAN, o \in OptionLists, hh \in BOOLEAN, h \in Histories }

\* Only bodies whose absent lists are empty are distinct requests.
WellFormedBody(b) ==
    /\ (~b.f.hasOptions => b.f.options = <<>>)
    /\ (~b.f.hasHistory => b.f.conversationHistory = <<>>)

Events(f) ==
    { [httpMethod |-> m, body |-> b] :
        m \in Methods,
        b \in { x \in (IF f = "parse-invoice" THEN InvoiceBodies ELSE PricingBodies) :
                  WellFormedBody(x) } }

Functions == {"parse-invoice", "ai-pricing"}

\* ------------------------------------------------------------ handler pieces
ErrorResponse(status, message) ==
    [statusCode |-> status, cors |-> FALSE, body |-> [error |-> message]]

OkResponse(payload) == [statusCode |-> 200, cors |-> TRUE, body |-> payload]

Respond(r) == [fetch |-> FALSE, response |-> r, request |-> <<>>]
Fetch(q) == [fetch |-> TRUE, response |-> <<>>, request |-> q]

PostOrPut(m) == m \in {"POST", "PUT"}

\* event.httpMethod !== 'POST' is false
MethodAllowed(m) == m = "POST"

\* JSON.parse(event.body) throws, or destructuring its null result does.
BodyThrows(b) == b.kind # "object"

BodyErrorMessage(b) ==
    CASE b.kind = "undefined" -> "\"undefined\" is not valid JSON"
      [] b.kind = "malformed" -> "Unexpected token in JSON"
      [] b.kind = "null" -> "Cannot destructure property of null"

BothInvoiceFieldsMissing(f) == Falsy(f.apiKey) /\ Falsy(f.pdfBase64)

\* !apiKey || !pdfBase64
MissingInvoiceFields(f) == Falsy(f.apiKey) \/ Falsy(f.pdfBase64)

MissingUserMessageOnly(f) == Falsy(f.userMessage)

\* !userMessage || !options
MissingPricingFields(f) == Falsy(f.userMessage) \/ ~f.hasOptions

ConfigMessage == "Server not configured: missing ANTHROPIC_API_KEY."

FieldsBeforeCredential(f, apiKey) ==
    IF MissingPricingFields(f) THEN ErrorResponse(400, "Missing required fields")
    ELSE IF Falsy(apiKey) THEN ErrorResponse(500, ConfigMessage)
    ELSE ErrorResponse(0, "")

\* The two validation returns of ai-pricing.js, in their order; status 0 when
\* neither is taken.
PricingValidation(f, apiKey) ==
    IF Falsy(apiKey) THEN ErrorResponse(500, ConfigMessage)
    ELSE IF MissingPricingFields(f) THEN ErrorResponse(400, "Missing required fields")
    ELSE ErrorResponse(0, "")

\* options.map(...).join: one rendered block per option; opt.items.map throws a
\* TypeError when an option has no items list.
OptionsThrow(options) == \E i \in 1..Len(options) : ~options[i].hasItems

OptionsSummary(options) ==
    [i \in 1..Len(options) |->
        [name |-> options[i].name, tabId |-> options[i].tabId,
         itemsList |-> options[i].items]]

FollowUpWhenDefined(f) == f.hasHistory

\* conversationHistory && conversationHistory.length > 0
IsFollowUp(f) == f.hasHistory /\ Len(f.conversationHistory) > 0

\* The content of the new user turn, as the pieces of its template.
FollowUpContent(f) ==
    << [part |-> "userMessage", text |-> f.userMessage, table |-> <<>>],
       [part |-> "optionsSummary", text |-> "", table |-> OptionsSummary(f.options)],
       [part |-> "followUpNote", text |-> "", table |-> <<>>] >>

InitialContent(f) ==
    << [part |-> "project", text |-> f.projectName, table |-> <<>>],
       [part |-> "client", text |-> f.clientName, table |-> <<>>],
       [part |-> "optionsSummary", text |-> "", table |-> OptionsSummary(f.options)],
       [part |-> "userMessage", text |-> f.userMessage, table |-> <<>>],
       [part |-> "instructions", text |-> "", table |-> <<>>],
       [part |-> "jsonStructure", text |-> "", table |-> <<>>] >>

HistoryContent(c) == << [part |-> "history", text |-> c, table |-> <<>>] >>

\* const messages = [] ... messages.push(...)
BuildMessages(f) ==
    LET copied == IF f.hasHistory /\ Len(f.conversationHistory) > 0
                  THEN [i \in 1..Len(f.conversationHistory) |->
                          [role |-> f.conversationHistory[i].role,
                           content |-> HistoryContent(f.conversationHistory[i].content)]]
                  ELSE <<>>
    IN  Append(copied,
               [role |-> "user",
                content |-> IF IsFollowUp(f) THEN FollowUpContent(f) ELSE InitialContent(f)])

\* parse-invoice.js up to its fetch call.
ParseInvoiceEntry(ev) ==
    IF ~MethodAllowed(ev.httpMethod) THEN Respond(ErrorResponse(405, "Method not allowed"))
    ELSE IF BodyThrows(ev.body)
         THEN Respond(ErrorResponse(500, BodyErrorMessage(ev.body)))
    ELSE IF MissingInvoiceFields(ev.body.f)
         THEN Respond(ErrorResponse(400, "Missing apiKey or pdfBase64"))
    ELSE Fetch([apiKey |-> ev.body.f.apiKey,
                model |-> "claude-3-5-sonnet-20241022",
                system |-> FALSE,
                messages |-> << [role |-> "user",
                                 content |-> << [part |-> "document",
                                                 text |-> ev.body.f.pdfBase64,
                                                 table |-> <<>>],
                                                [part |-> "extractInstructions",
                                                 text |-> "", table |-> <<>>] >>] >>])

\* ai-pricing.js up to its fetch call.
AiPricingEntry(ev, apiKey) ==
    IF ~MethodAllowed(ev.httpMethod) THEN Respond(ErrorResponse(405, "Method not allowed"))
    ELSE IF BodyThrows(ev.body)
         THEN Respond(ErrorResponse(500, BodyErrorMessage(ev.body)))
    ELSE IF PricingValidation(ev.body.f, apiKey).statusCode # 0
         THEN Respond(PricingValidation(ev.body.f, apiKey))
    ELSE IF OptionsThrow(ev.body.f.options)
         THEN Respond(ErrorResponse(500, "Cannot read properties of undefined"))
    ELSE Fetch([apiKey |-> apiKey,
                model |-> "claude-sonnet-4-20250514",
                system |-> TRUE,
                messages |-> BuildMessages(ev.body.f)])

\* ------------------------------------------------------------ upstream API
\* What the external API may answer: a status and a body.  The body is text that
\* is not JSON, the JSON text null, an error object, an object without error, or
\* a completion whose content[0].text is a token sequence.
Statuses == {200, 400, 429, 500}

Ok(status) == status >= 200 /\ status <= 299

SpecExample ==
    << JSONWORD, NL, NL, LB, Member(RecKey, LitList), COMMA, Member(TmsKey, LitStr), RB >>

SampleTexts ==
    { <<>>, <<JSONWORD, NL>>, <<NL, LB, Member(RecKey, LitNum), RB, RB>>, SpecExample }

UpstreamBody(k, m, t) == [kind |-> k, message |-> m, text |-> t]

UpstreamBodies ==
    { UpstreamBody("nonjson", "", <<>>), UpstreamBody("null", "", <<>>),
      UpstreamBody("error", "Overloaded", <<>>), UpstreamBody("object", "", <<>>) }
    \cup { UpstreamBody("completion", "", t) : t \in SampleTexts }

NoUpstream == [state |-> "none", status |-> 0, body |-> UpstreamBody("null", "", <<>>)]

\* error.error?.message || 'API request failed'
UpstreamMessage(body) ==
    IF body.kind = "error" /\ body.message # "" THEN body.message ELSE "API request failed"

\* The !response.ok branch, entered once response.json() has settled.
NotOkResponse(status, body) ==
    IF body.kind = "nonjson" THEN ErrorResponse(500, "Unexpected token < in JSON")
    ELSE IF body.kind = "null"
         THEN ErrorResponse(500, "Cannot read properties of null")
    ELSE ErrorResponse(status, UpstreamMessage(body))

\* parse-invoice.js after fetch has resolved.
InvoiceAfterFetch(status, body) ==
    IF ~Ok(status) THEN NotOkResponse(status, body)
    ELSE IF body.kind = "nonjson" THEN ErrorResponse(500, "Unexpected token < in JSON")
    ELSE OkResponse(body)

\* ai-pricing.js after fetch has resolved.
PricingAfterFetch(status, body) ==
    IF ~Ok(status) THEN NotOkResponse(status, body)
    ELSE IF body.kind = "nonjson" THEN ErrorResponse(500, "Unexpected token < in JSON")
    ELSE IF body.kind # "completion"
         THEN ErrorResponse(500, "Cannot read properties of undefined")
    ELSE OkResponse(ShapeResponse(body.text))

\* ------------------------------------------------------------ state machine
TypeOK ==
    /\ fn \in Functions \cup {"none"}
    /\ env \in {UNDEF, "sk-server"}
    /\ pc \in {"idle", "fetch", "json", "done"}
    /\ Len(calls) \in 0..1
    /\ Len(responses) \in 0..1
    /\ upstream.state \in {"none", "rejected", "resolved"}

NoEvent == [httpMethod |-> "none", body |-> [kind |-> "undefined", f |-> NoFields]]

\* The deployed functions, before any invocation; process.env is set or not.
Init ==
    /\ fn = "none"
    /\ event = NoEvent
    /\ env \in {UNDEF, "sk-server"}
    /\ pc = "idle"
    /\ calls = <<>>
    /\ upstream = NoUpstream
    /\ responses = <<>>

\* exports.handler is called and runs to its first return or to await fetch(...).
Invoke(f, ev) ==
    /\ pc = "idle"
    /\ fn' = f
    /\ event' = ev
    /\ LET r == IF f = "parse-invoice" THEN ParseInvoiceEntry(ev)
                ELSE AiPricingEntry(ev, env)
       IN  IF r.fetch
           THEN /\ calls' = Append(calls, r.request)
                /\ pc' = "fetch"
                /\ responses' = responses
           ELSE /\ responses' = Append(responses, r.response)
                /\ pc' = "done"
                /\ calls' = calls
    /\ UNCHANGED <<env, upstream>>

\* fetch rejects (no status is produced): the outer catch answers 500.
FetchRejects ==
    /\ pc = "fetch"
    /\ upstream' = [NoUpstream EXCEPT !.state = "rejected"]
    /\ responses' = Append(responses, ErrorResponse(500, "fetch failed"))
    /\ pc' = "done"
    /\ UNCHANGED <<fn, event, env, calls>>

\* fetch resolves with a response; the handler goes on to await response.json().
FetchResolves(status, body) ==
    /\ pc = "fetch"
    /\ upstream' = [state |-> "resolved", status |-> status, body |-> body]
    /\ pc' = "json"
    /\ UNCHANGED <<fn, event, env, calls, responses>>

\* response.json() settles and parse-invoice.js runs to its return.
InvoiceReadBody ==
    /\ pc = "json"
    /\ fn = "parse-invoice"
    /\ responses' = Append(responses, InvoiceAfterFetch(upstream.status, upstream.body))
    /\ pc' = "done"
    /\ UNCHANGED <<fn, event, env, calls, upstream>>

\* response.json() settles and ai-pricing.js runs to its return.
PricingReadBody ==
    /\ pc = "json"
    /\ fn = "ai-pricing"
    /\ responses' = Append(responses, PricingAfterFetch(upstream.status, upstream.body))
    /\ pc' = "done"
    /\ UNCHANGED <<fn, event, env, calls, upstream>>

Next ==
    \/ \E f \in Functions : \E ev \in Events(f) : Invoke(f, ev)
    \/ FetchRejects
    \/ \E status \in Statuses : \E body \in UpstreamBodies : FetchResolves(status, body)
    \/ InvoiceReadBody
    \/ PricingReadBody

Spec == Init /\ [][Next]_vars

\* ------------------------------------------------------------ shaper inputs
\* A first-turn pricing request that passes validation.
ShaperEvent ==
    [httpMethod |-> "POST",
     body |-> [kind |-> "object",
               f |-> [NoFields EXCEPT !.userMessage = "Keep it under 5k",
                                      !.projectName = "Shop CCTV", !.clientName = "Sam",
                                      !.hasOptions = TRUE, !.options = <<GoodOption>>]]]

\* ai-pricing.js awaiting response.json() of a successful reply whose text is any
\* token sequence of at most MaxLen tokens.
InitShaper ==
    /\ fn = "ai-pricing"
    /\ event = ShaperEvent
    /\ env = "sk-server"
    /\ pc = "json"
    /\ calls = <<AiPricingEntry(ShaperEvent, "sk-server").request>>
    /\ \E t \in BoundedTexts :
          upstream = [state |-> "resolved", status |-> 200,
                      body |-> UpstreamBody("completion", "", t)]
    /\ responses = <<>>

NextShaper == PricingReadBody

SpecShaper == InitShaper /\ [][NextShaper]_vars

\* ------------------------------------------------------------ properties
Done == pc = "done" /\ Len(responses) = 1

Reply == responses[1]

UpText == upstream.body.text

\* The pricing handler has shaped a successful completion into its 200 answer.
Shaped ==
    /\ Done
    /\ fn = "ai-pricing"
    /\ upstream.state = "resolved"
    /\ Ok(upstream.status)
    /\ upstream.body.kind = "completion"

\* text holds an opening brace, later the quoted key, later a closing brace.
HasPattern(text) ==
    \E i \in 1..Len(text) :
        /\ text[i] = LB
        /\ \E j \in (i + 1)..Len(text) :
              /\ text[j].kind = "member"
              /\ text[j].key = RecKey
              /\ \E k \in (j + 1)..Len(text) : text[k] = RB

\* e is t without its leading and trailing white space.
IsTrimOf(e, t) ==
    /\ Len(e) <= Len(t)
    /\ (e # <<>> => e[1] # NL /\ e[Len(e)] # NL)
    /\ \E a \in 0..(Len(t) - Len(e)) :
          /\ \A i \in 1..a : t[i] = NL
          /\ \A i \in (a + Len(e) + 1)..Len(t) : t[i] = NL
          /\ e = SubSeq(t, a + 1, a + Len(e))

\* The span from the first opening brace to the last closing brace of a text
\* that holds the pattern is not valid JSON once the fence markers are stripped.
SpanInvalid(text) ==
    /\ HasPattern(text)
    /\ LET first == SetMin({ i \in 1..Len(text) : text[i] = LB })
           last == SetMax({ k \in 1..Len(text) : text[k] = RB })
       IN  ~JsonParse(Trim(StripFences(SubSeq(text, first, last)))).ok

\* C1: when the upstream text holds no brace ... "recommendations" ... brace
\* pattern, the 200 answer has recommendations null, an empty
\* textMessageSummary, and the whole text, trimmed, as explanation.
C1_NoPatternAllExplanation ==
    (Shaped /\ ~HasPattern(UpText)) =>
        /\ Reply.statusCode = 200
        /\ Reply.body.recommendations = JNull
        /\ Reply.body.textMessageSummary = JStr("")
        /\ IsTrimOf(Reply.body.explanation, UpText)

C1_Witness ==
    /\ Shaped
    /\ ~HasPattern(UpText)
    /\ Len(UpText) >= 4
    /\ UpText[1] = NL
    /\ \E i, j \in 1..Len(UpText) :
          i < j /\ UpText[i].kind = "member" /\ UpText[i].key = RecKey /\ UpText[j] = LB
    /\ Reply.body.explanation # <<>>

\* C2 as stated: when the matched span is not valid JSON, the answer is 200,
\* recommendations is null and explanation equals the upstream text itself.
C2_ParseFailureOriginalText ==
    (Shaped /\ SpanInvalid(UpText)) =>
        /\ Reply.statusCode = 200
        /\ Reply.body.recommendations = JNull
        /\ Reply.body.explanation = UpText

\* C2 as amended: when the matched span is not valid JSON, the answer is 200,
\* recommendations is null and explanation equals the whole upstream text with
\* its surrounding white space trimmed (not only the part before the span).
C2_ParseFailureTrimmedText ==
    (Shaped /\ SpanInvalid(UpText)) =>
        /\ Reply.statusCode = 200
        /\ Reply.body.recommendations = JNull
        /\ Reply.body.textMessageSummary = JStr("")
        /\ IsTrimOf(Reply.body.explanation, UpText)

C2_Witness ==
    /\ Shaped
    /\ SpanInvalid(UpText)
    /\ UpText[1] = LB
    /\ UpText[Len(UpText)] = NL
    /\ Reply.body.recommendations = JNull
    /\ Len(Reply.body.explanation) = Len(UpText) - 1

\* C3: in every 200 answer of the pricing handler explanation is a string,
\* recommendations is a list or null, and textMessageSummary is a string.
C3_OutputContract ==
    Shaped =>
        /\ Reply.statusCode = 200
        /\ \A i \in 1..Len(Reply.body.explanation) : Reply.body.explanation[i].kind # ""
        /\ Reply.body.recommendations.type \in {"array", "null"}
        /\ Reply.body.textMessageSummary.type = "string"

\* The shaper output written back as text: the explanation followed by
\* JSON.stringify({recommendations, textMessageSummary}).
ReEmbed(out) ==
    out.explanation \o
    << LB, Member(RecKey, Stringify(out.recommendations)), COMMA,
       Member(TmsKey, Stringify(out.textMessageSummary)), RB >>

\* C4: shaping the re-embedded output again yields the recommendations of the
\* first run, also when the first run produced none.
C4_Idempotent ==
    Shaped =>
        ShapeResponse(ReEmbed(Reply.body)).recommendations = Reply.body.recommendations

\* C5: a request whose method is not POST is answered 405, by both handlers,
\* whatever the body and whether or not the credential is configured.
C5_MethodNotAllowed ==
    (Done /\ event.httpMethod # "POST") => Reply.statusCode = 405

C5_Witness ==
    /\ Done
    /\ fn = "ai-pricing"
    /\ event.httpMethod = "PUT"
    /\ event.body.kind = "malformed"
    /\ env = UNDEF
    /\ Reply.statusCode = 405

\* A required field of the handler is absent from the parsed body.
FieldMissing ==
    /\ event.body.kind = "object"
    /\ IF fn = "parse-invoice"
       THEN event.body.f.apiKey = UNDEF \/ event.body.f.pdfBase64 = UNDEF
       ELSE event.body.f.userMessage = UNDEF \/ ~event.body.f.hasOptions

C8_UpstreamStatusMirrored ==
    /\ (Done /\ upstream.state = "resolved" /\ ~Ok(upstream.status)) =>
            Reply.statusCode = upstream.status
    /\ (Done /\ Len(calls) = 1 /\ Reply.statusCode = 500 /\ ~Ok(upstream.status)) =>
            (upstream.state = "rejected" \/ upstream.status = 500)

\* C9: the messages sent upstream are the history, in order, role and content
\* unchanged, then one user message; that message has the follow-up form
\* exactly when the history is not empty.
C9_Messages ==
    (Len(calls) = 1 /\ fn = "ai-pricing") =>
        LET f == event.body.f
            h == IF f.hasHistory THEN f.conversationHistory ELSE <<>>
            msgs == calls[1].messages
            last == msgs[Len(msgs)]
            parts == [i \in 1..Len(last.content) |-> last.content[i].part]
        IN  /\ Len(msgs) = Len(h) + 1
            /\ \A i \in 1..Len(h) :
                  /\ msgs[i].role = h[i].role
                  /\ Len(msgs[i].content) = 1
                  /\ msgs[i].content[1].text = h[i].content
            /\ last.role = "user"
            /\ \E i \in 1..Len(last.content) :
                  last.content[i].part = "userMessage" /\ last.content[i].text = f.userMessage
            /\ IF h # <<>>
               THEN parts = <<"userMessage", "optionsSummary", "followUpNote">>
               ELSE parts = <<"project", "client", "optionsSummary", "userMessage",
                              "instructions", "jsonStructure">>

C9_Witness ==
    /\ Len(calls) = 1
    /\ fn = "ai-pricing"
    /\ Len(event.body.f.conversationHistory) >= 2
    /\ event.body.f.conversationHistory[1].role = "user"
    /\ event.body.f.conversationHistory[2].role = "assistant"
    /\ Len(calls[1].messages) = Len(event.body.f.conversationHistory) + 1

\* Method, body, required fields and (pricing) credential are all in order.
ValidationPassed ==
    /\ event.httpMethod = "POST"
    /\ event.body.kind = "object"
    /\ IF fn = "parse-invoice"
       THEN event.body.f.apiKey \notin {UNDEF, ""} /\ event.body.f.pdfBase64 \notin {UNDEF, ""}
       ELSE /\ event.body.f.userMessage \notin {UNDEF, ""}
            /\ event.body.f.hasOptions
            /\ env # UNDEF

ValidationMessages ==
    { "Method not allowed", "Missing apiKey or pdfBase64", "Missing required fields",
      ConfigMessage }

\* C10: an invocation ends with exactly one response and makes at most one
\* outbound call; the call is made only after validation has passed, an answer
\* given by validation comes without a call, and a 200 comes only after one
\* call that completed successfully.
C10_OneCallOneResponse ==
    /\ Len(responses) <= 1
    /\ Len(calls) <= 1
    /\ (pc = "done" <=> Len(responses) = 1)
    /\ (pc = "fetch" => Len(calls) = 1 /\ upstream.state = "none")
    /\ (pc = "json" => Len(calls) = 1 /\ upstream.state = "resolved")
    /\ (Len(calls) = 1 => ValidationPassed)
    /\ (Done /\ Reply.statusCode # 200 /\ Reply.body.error \in ValidationMessages) =>
            calls = <<>>
    /\ (Done /\ Reply.statusCode = 200) =>
            /\ Len(calls) = 1
            /\ upstream.state = "resolved"
            /\ Ok(upstream.status)

C10_Witness ==
    /\ Done
    /\ fn = "parse-invoice"
    /\ Reply.statusCode = 200
    /\ Len(calls) = 1

====
